---- MODULE Spec2Model ----
(***************************************************************************)
(* A model of make_dataset.py: the conversion of the raw OinkTrack         *)
(* recordings into a MOT-style dataset.                                    *)
(*                                                                         *)
(* Coordinates of annotation figures are JSON numbers.  They are modelled  *)
(* in half-pixel units (the integer h stands for the number h/2), which is *)
(* the grid on which Python's round() has ties.                            *)
(* File and directory names are sequences of character codes, compared     *)
(* lexicographically as Python compares the paths.                         *)
(* A run starts on an empty dataset/ tree, and the annotation documents are *)
(* well-formed.                                                            *)
(* ffmpeg is a function of its input: the frames extracted for a sequence  *)
(* are those its recording shows.                                          *)
(***************************************************************************)
EXTENDS Integers, Sequences, FiniteSets, TLC

VARIABLES
    \* ---- sup_to_mot taken alone (SpecMot, SpecBox)
    data,           \* the parsed annotation document: a sequence of frame records
    txt_out,        \* the ground-truth table: [written, id_map, rows]
    \* ---- the whole run (Spec, SpecBuild)
    has_ffmpeg,     \* shutil.which("ffmpeg")
    has_cv2,        \* the cv2 module has a __version__
    fs,             \* the input tree OinkTrack/<seq>/..., per sequence
    masks,          \* OinkTrack/masks/<camera>_mask.png, per camera
    pc,             \* position of the script
    k,              \* index of the current (split, sequence) pair
    problems,       \* the list sanity_check returned
    out_dir,        \* dataset/ exists
    dst,            \* dataset/<split>/<seq>/..., per sequence
    seqmaps,        \* dataset/<split>_seqmap.txt, per split
    td,             \* the TemporaryDirectory of process_sequence
    segment_dirs,   \* build_1fps_video: sorted(segment_dirs)
    si,             \* build_1fps_video: position in segment_dirs
    ts_list,        \* build_1fps_video: sorted(seg.glob("*.ts"))
    ci,             \* build_1fps_video: position in ts_list
    mp4_list,       \* build_1fps_video: mp4_list
    segments_1fps,  \* build_1fps_video: segments_1fps
    merged_video,   \* process_sequence: merged_video
    raw_frames,     \* the frames as ffmpeg extracted them, per sequence
    imwritten,      \* the arrays apply_mask handed to cv2.imwrite, per sequence
    tool_failed,    \* the external tool invocation that exited non-zero ("" if none)
    crash           \* why the run ended abnormally ("" while it has not)

vars == <<data, txt_out, has_ffmpeg, has_cv2, fs, masks, pc, k, problems, out_dir, dst,
          seqmaps, td, segment_dirs, si, ts_list, ci, mp4_list, segments_1fps,
          merged_video, raw_frames, imwritten, tool_failed, crash>>

buildVars == <<segment_dirs, si, ts_list, ci, mp4_list, segments_1fps, merged_video>>

(***************************************************************************)
(* Bounds of the model.                                                    *)
(***************************************************************************)
MaxFrameRecords == 2    \* frame records in an annotation document
MaxFigures == 3         \* figures in a whole annotation document
MaxIndex == 2           \* largest 0-based index of a frame record
MaxCoord == 5           \* corner coordinates range over -2..MaxCoord half-pixels
MaxFrames == 2          \* frames (seconds) of one recording
MaxSegments == 2        \* sub-directories of raw_videos/ when build_1fps_video is taken alone
MaxClips == 2           \* clips of one segment when build_1fps_video is taken alone
MaxBroken == 2          \* sequences sanity_check objects to
MaxVaried == 1          \* accepted sequences that differ from the default sequence

(***************************************************************************)
(* Generic helpers.                                                        *)
(***************************************************************************)
Range(s) == {s[i] : i \in DOMAIN s}

SeqsUpTo(S, n) == UNION {[1..m -> S] : m \in 0..n}

RECURSIVE Flatten(_)
Flatten(ss) == IF ss = <<>> THEN <<>> ELSE Head(ss) \o Flatten(Tail(ss))

\* Python's min, abs
min(a, b) == IF a <= b THEN a ELSE b

abs(a) == IF a < 0 THEN -a ELSE a

\* int(round(v)) for the number v = h/2: Python rounds a tie to the even integer.
round(h) ==
    LET q == h \div 2
    IN  IF h % 2 = 0 THEN q
        ELSE IF q % 2 = 0 THEN q ELSE q + 1

\* sorted(S) for a set of integers
RECURSIVE sorted_ints(_)
sorted_ints(S) ==
    IF S = {} THEN <<>>
    ELSE LET m == CHOOSE x \in S : \A y \in S : x <= y
         IN  <<m>> \o sorted_ints(S \ {m})

(***************************************************************************)
(* sup_to_mot: Supervisely annotation document -> MOT ground-truth rows.   *)
(* A frame record is [index, figures]; a figure is [objectId, exterior],   *)
(* exterior being the two corner points <<<<x1, y1>>, <<x2, y2>>>>.        *)
(***************************************************************************)
AllFigures(d) == Flatten([i \in DOMAIN d |-> d[i].figures])

\* the set comprehension {fig["objectId"] for fr in ... for fig in ...}
ObjectIdSet(d) == {AllFigures(d)[i].objectId : i \in DOMAIN AllFigures(d)}

\* the order in which object ids are first met in the document (not what the
\* code uses: the list a map built on the fly would number)
RECURSIVE first_seen(_, _)
first_seen(figs, acc) ==
    IF figs = <<>> THEN acc
    ELSE first_seen(Tail(figs),
                    IF Head(figs).objectId \in Range(acc) THEN acc
                    ELSE Append(acc, Head(figs).objectId))

object_ids_first_seen(d) == first_seen(AllFigures(d), <<>>)

object_ids(d) == sorted_ints(ObjectIdSet(d))

\* {oid: i + 1 for i, oid in enumerate(object_ids)}
id_map(d) ==
    LET ids == object_ids(d)
    IN  [oid \in Range(ids) |-> CHOOSE i \in DOMAIN ids : ids[i] = oid]

box_w_signed(x1, x2) == x2 - x1

box_w(x1, x2) == abs(x2 - x1)

\* one line of gt.txt
mot_row(fidx, idm, fig) ==
    LET x1 == fig.exterior[1][1]
        y1 == fig.exterior[1][2]
        x2 == fig.exterior[2][1]
        y2 == fig.exterior[2][2]
        x  == min(x1, x2)
        y  == min(y1, y2)
        w  == box_w(x1, x2)
        h  == box_w(y1, y2)
    IN  <<fidx, idm[fig.objectId], round(x), round(y), round(w), round(h), 1, 1, 1>>

frame_index_0based(fr) == fr.index

\* fidx = fr["index"] + 1
frame_index(fr) == fr.index + 1

frame_rows(fr, idm) ==
    [j \in DOMAIN fr.figures |-> mot_row(frame_index(fr), idm, fr.figures[j])]

sup_to_mot(d) ==
    LET idm == id_map(d)
    IN  [written |-> TRUE,
         id_map  |-> idm,
         rows    |-> Flatten([i \in DOMAIN d |-> frame_rows(d[i], idm)])]

\* corners (50, 80), (10, 20) in half-pixels
ExampleExterior == <<<<100, 160>>, <<20, 40>>>>

NoTable == [written |-> FALSE, id_map |-> <<>>, rows |-> <<>>]



(***************************************************************************)
(* Configuration: SPLIT.  A sequence name is its sequence of characters.   *)
(***************************************************************************)
SplitNames == <<"train", "val", "test">>

SPLIT ==
    [train |-> << <<"C", "1", "D", "-", "1">>, <<"C", "1", "D", "-", "3">>,
                  <<"C", "1", "N", "-", "1">>, <<"C", "1", "N", "-", "3">>,
                  <<"C", "2", "D", "-", "2">>, <<"C", "2", "N", "-", "2">>,
                  <<"C", "2", "N", "D", "-", "1">> >>,
     val   |-> << <<"C", "1", "N", "D", "-", "1">>, <<"C", "2", "N", "-", "3">> >>,
     test  |-> << <<"C", "2", "D", "-", "1">>, <<"C", "1", "D", "N", "-", "1">>,
                  <<"C", "1", "D", "-", "2">>, <<"C", "1", "N", "-", "2">>,
                  <<"C", "2", "N", "-", "1">>, <<"C", "2", "N", "-", "4">>,
                  <<"C", "2", "D", "N", "-", "1">> >>]

\* [*SPLIT["train"], *SPLIT["val"], *SPLIT["test"]]
AllSeqs == SPLIT.train \o SPLIT.val \o SPLIT.test

SeqSet == Range(AllSeqs)

\* the (sp, seq) pairs in the order of the loops over SPLIT.items()
Pairs ==
    Flatten([i \in DOMAIN SplitNames |->
               [j \in DOMAIN SPLIT[SplitNames[i]] |->
                  [split |-> SplitNames[i], seq |-> SPLIT[SplitNames[i]][j]]]])

\* "C1_mask.png" if seq_name.startswith("C1") else "C2_mask.png"
mask_file(seq) ==
    IF Len(seq) >= 2 /\ seq[1] = "C" /\ seq[2] = "1" THEN "C1_mask.png" ELSE "C2_mask.png"

MaskFiles == {"C1_mask.png", "C2_mask.png"}

(***************************************************************************)
(* Names and their order.                                                  *)
(***************************************************************************)
\* a < b for two names, as Python compares strings
RECURSIVE LexLess(_, _)
LexLess(a, b) ==
    IF b = <<>> THEN FALSE
    ELSE IF a = <<>> THEN TRUE
    ELSE IF Head(a) < Head(b) THEN TRUE
    ELSE IF Head(a) > Head(b) THEN FALSE
    ELSE LexLess(Tail(a), Tail(b))

RECURSIVE insert_sorted(_, _)
insert_sorted(x, s) ==
    IF s = <<>> THEN <<x>>
    ELSE IF LexLess(x, Head(s)) THEN <<x>> \o s
    ELSE <<Head(s)>> \o insert_sorted(x, Tail(s))

RECURSIVE sort_names(_)
sort_names(listing) ==
    IF listing = <<>> THEN <<>>
    ELSE insert_sorted(Head(listing), sort_names(Tail(listing)))

\* sorted(...) of the paths of one directory, given in the order it lists them:
\* the paths differ in their last component only, the full file name
sorted_paths(listing) == sort_names(listing)

\* the orders in which a directory may list the entries S
Listings(S) == {l \in [1..Cardinality(S) -> S] : Range(l) = S}

\* the directory names "1", "2", "10", "merged" and "raw_videos" as character codes
N1 == <<49>>

N2 == <<50>>

N10 == <<49, 48>>

Merged == <<109, 101, 114, 103, 101, 100>>

RawVideos == <<114, 97, 119, 95, 118, 105, 100, 101, 111, 115>>

\* the names "1.ts", "2.ts", "1-.ts", "cat.ts" and ".ts"
Clip1 == <<49, 46, 116, 115>>

Clip2 == <<50, 46, 116, 115>>

Clip1Dash == <<49, 45, 46, 116, 115>>

ClipCat == <<99, 97, 116, 46, 116, 115>>

ClipDot == <<46, 116, 115>>

\* the name matches the pattern "*.ts"
matches_ts(name) ==
    Len(name) >= 3 /\ SubSeq(name, Len(name) - 2, Len(name)) = <<46, 116, 115>>

\* name.rfind("."), counting from 1 (0 when there is none)
rfind_dot(name) ==
    LET I == {i \in DOMAIN name : name[i] = 46}
    IN  IF I = {} THEN 0 ELSE CHOOSE i \in I : \A j \in I : j <= i

\* ts_file.stem: the name up to its last dot, or the whole name when that dot
\* is its first or its last character or there is none
stem_of(name) ==
    LET i == rfind_dot(name)
    IN  IF 1 < i /\ i < Len(name) THEN SubSeq(name, 1, i - 1) ELSE name

(***************************************************************************)
(* Images.  A frame is a row of pixels, a pixel its three uint8 channels;  *)
(* a mask is a row of uint8 values.                                        *)
(* A frame file in img1/ is a JPEG file.  One that ffmpeg wrote is known   *)
(* by the array cv2.imread decodes from it (px); one that cv2.imwrite      *)
(* wrote is known by the array that was encoded into it (px).              *)
(***************************************************************************)
Extracted(px) == [readable |-> TRUE, via |-> "ffmpeg", px |-> px]

\* the file cv2.imwrite(str(jpg), arr) leaves
Encoded(arr) == [readable |-> TRUE, via |-> "imwrite", px |-> arr]

\* a frame file cv2.imread cannot decode: it returns None
Unreadable == [readable |-> FALSE, via |-> "ffmpeg", px |-> <<>>]

FrameImages == <<<<<<200, 7, 0>>, <<255, 1, 90>>>>, <<<<0, 0, 0>>, <<13, 13, 13>>>>>>

\* the frames a recording of n seconds shows at one frame per second
FramesOf(n) == [i \in 1..n |-> Extracted(FrameImages[2 - (i % 2)])]

\* the same with frame i written as a file that cannot be decoded
UnreadableAt(frames, i) == [frames EXCEPT ![i] = Unreadable]

NoMask == [found |-> FALSE, px |-> <<>>]

\* a mask of the width of the frames, and a wider one
MaskImages == <<[found |-> TRUE, px |-> <<0, 255>>], [found |-> TRUE, px |-> <<255, 255, 0>>]>>

binarize_skipped(px) == px

\* (mask > 0).astype(np.uint8)
binarize(px) == [i \in DOMAIN px |-> IF px[i] > 0 THEN 1 ELSE 0]

\* cv2.resize(mask, (w, h), cv2.INTER_NEAREST) of a row of pixels to w pixels.
\* The third positional parameter of cv2.resize is dst, so the interpolation
\* is the default, bilinear: pixel i (from 0) samples the source at
\* (i + 1/2) * n / w - 1/2, clamped to the row, and the result is rounded.
\* num is that coordinate in units of 1 / (2 * w).
resize(px, w) ==
    [i \in 1..w |->
        LET n    == Len(px)
            num  == (2 * i - 1) * n - w
            f    == IF num < 0 THEN 0 ELSE num \div (2 * w)
            lo   == IF f >= n - 1 THEN n - 1 ELSE f
            frac == IF num < 0 \/ f >= n - 1 THEN 0 ELSE num % (2 * w)
            hi   == IF lo + 1 > n - 1 THEN n - 1 ELSE lo + 1
        IN  ((2 * w - frac) * px[lo + 1] + frac * px[hi + 1] + w) \div (2 * w)]

\* img * m[..., None] in uint8
mul_mask(img, m) ==
    [i \in DOMAIN img |-> [c \in DOMAIN img[i] |-> (img[i][c] * m[i]) % 256]]

\* m = mask, or the resized mask when img.shape[:2] != mask.shape; img * m
mask_frame(img, mask) ==
    LET m == IF Len(img) # Len(mask) THEN resize(mask, Len(img)) ELSE mask
    IN  mul_mask(img, m)

\* What cv2.imread decodes from the file cv2.imwrite(str(jpg), arr) leaves.
\* The encoding is JPEG at OpenCV's defaults (quality 95, chroma subsampled
\* 4:2:0) and loses information.  The codec is not computed here: these are
\* the values of the IJG libjpeg codec on the arrays apply_mask writes for
\* the frames above under the masks above and under an all-positive mask, and
\* on those a second apply_mask would write.
\* No other array is encoded in any run.
jpeg(arr) ==
    CASE arr = <<<<0, 0, 0>>, <<255, 1, 90>>>>    -> <<<<99, 0, 17>>, <<156, 29, 74>>>>
      [] arr = <<<<200, 7, 0>>, <<255, 1, 90>>>>  -> <<<<211, 0, 30>>, <<241, 20, 60>>>>
      [] arr = <<<<200, 7, 0>>, <<0, 0, 0>>>>     -> <<<<116, 17, 13>>, <<89, 0, 0>>>>
      [] arr = <<<<0, 0, 0>>, <<13, 13, 13>>>>    -> <<<<0, 0, 0>>, <<13, 13, 13>>>>
      [] arr = <<<<0, 0, 0>>, <<0, 0, 0>>>>       -> <<<<0, 0, 0>>, <<0, 0, 0>>>>
      [] arr = <<<<0, 0, 0>>, <<156, 29, 74>>>>   -> <<<<48, 0, 10>>, <<105, 43, 67>>>>
      [] arr = <<<<116, 17, 13>>, <<0, 0, 0>>>>   -> <<<<73, 22, 20>>, <<46, 0, 0>>>>

\* cv2.imread(str(jpg)) of a frame file that can be read
imread(f) == IF f.via = "imwrite" THEN jpeg(f.px) ELSE f.px

\* the arrays apply_mask hands to cv2.imwrite, frame by frame in sorted order:
\* none at all without a mask ("if mask is None: return"), none for a frame
\* that cannot be read ("if img is None: continue")
imwrite_args(imgs, mask_img) ==
    IF ~mask_img.found THEN <<>>
    ELSE LET mask == binarize(mask_img.px)
         IN  [n \in DOMAIN imgs |->
                IF ~imgs[n].readable THEN <<>>
                ELSE mask_frame(imread(imgs[n]), mask)]

\* apply_mask on the frames of img1/: every frame that can be read is
\* replaced by the encoding of its masked array, every other frame is left
\* as it is
apply_mask(imgs, mask_img) ==
    IF ~mask_img.found THEN imgs
    ELSE [n \in DOMAIN imgs |->
            IF ~imgs[n].readable THEN imgs[n]
            ELSE Encoded(imwrite_args(imgs, mask_img)[n])]

(***************************************************************************)
(* The input tree of one sequence: OinkTrack/<seq>/.                       *)
(*   root_ts  the names of the .ts clips directly in raw_videos/           *)
(*   subdirs  the sub-directories of raw_videos/, each with the names of   *)
(*            the .ts clips directly in it                                 *)
(*   deep_ts  a .ts clip lies deeper than that, under a sub-directory      *)
(*   frames   the frames the recording shows at one frame per second       *)
(***************************************************************************)
Tree(sd, rd, root, subs, deep, anno, frames) ==
    [seq_dir |-> sd, raw_dir |-> rd, root_ts |-> root, subdirs |-> subs,
     deep_ts |-> deep, annotation |-> anno, frames |-> frames]

Sub(name, ts) == [name |-> name, ts |-> ts]

\* one clip in raw_videos/, an annotation, a recording of MaxFrames seconds
DefaultTree == Tree(TRUE, TRUE, {Clip1}, {}, FALSE, TRUE, FramesOf(MaxFrames))

\* the trees sanity_check objects to
BrokenTrees ==
    {Tree(FALSE, FALSE, {}, {}, FALSE, FALSE, <<>>)}               \* no sequence directory
    \cup {Tree(TRUE, FALSE, {}, {}, FALSE, FALSE, <<>>),           \* no raw_videos/, no annotation.json
          Tree(TRUE, TRUE, {}, {Sub(N2, {})}, FALSE, TRUE, <<>>),  \* an empty segment only
          Tree(TRUE, TRUE, {Clip1}, {}, FALSE, FALSE, FramesOf(1))} \* no annotation.json

\* the default tree with a frame that cannot be read: the last one, the first one
FrameTrees ==
    {Tree(TRUE, TRUE, {Clip1}, {}, FALSE, TRUE, UnreadableAt(FramesOf(MaxFrames), MaxFrames)),
     Tree(TRUE, TRUE, {Clip1}, {}, FALSE, TRUE, UnreadableAt(FramesOf(MaxFrames), 1))}

\* the trees sanity_check accepts, other than the default
VariantTrees ==
    {Tree(TRUE, TRUE, {Clip1}, {Sub(N2, {})}, FALSE, TRUE, <<>>),  \* a clip beside an empty segment
     Tree(TRUE, TRUE, {}, {Sub(Clip1, {})}, FALSE, TRUE, <<>>),    \* an empty directory named 1.ts
     Tree(TRUE, TRUE, {}, {Sub(N2, {Clip1}), Sub(N10, {Clip2})}, FALSE, TRUE,
          FramesOf(1)),
     Tree(TRUE, TRUE, {Clip1}, {}, FALSE, TRUE, <<>>)}             \* a recording without a frame

\* the input tree in which the sequences of DOMAIN g have the trees g gives
\* them and every other sequence the default
Patch(g) == [s \in SeqSet |-> IF s \in DOMAIN g THEN g[s] ELSE DefaultTree]

Few(n) == {S \in SUBSET SeqSet : Cardinality(S) <= n}

\* any(raw_dir.rglob("*.ts")): rglob yields the files and the directories whose
\* name matches
any_ts(t) ==
    \/ t.root_ts # {}
    \/ t.deep_ts
    \/ \E d \in t.subdirs : d.ts # {} \/ matches_ts(d.name)

(***************************************************************************)
(* sanity_check                                                            *)
(***************************************************************************)
Issue(seq, what) == [seq |-> seq, what |-> what]

seq_issues(f, seq) ==
    IF ~f[seq].seq_dir THEN <<Issue(seq, "directory not found")>>
    ELSE (IF ~f[seq].raw_dir THEN <<Issue(seq, "missing raw_videos/")>>
          ELSE IF ~any_ts(f[seq]) THEN <<Issue(seq, "no .ts clips found in raw_videos/")>>
          ELSE <<>>)
         \o (IF ~f[seq].annotation THEN <<Issue(seq, "missing annotation.json")>>
             ELSE <<>>)

sanity_check(f) == Flatten([i \in DOMAIN AllSeqs |-> seq_issues(f, AllSeqs[i])])

(***************************************************************************)
(* write_seqinfo                                                           *)
(***************************************************************************)
NoSeqinfo == [written |-> FALSE, name |-> <<>>, seqLength |-> 0, imWidth |-> 0, imHeight |-> 0]

seq_length_off_by_one(imgs) == Len(imgs) - 1

\* seqLength={len(imgs)}
seq_length(imgs) == Len(imgs)

seqinfo_of(seq, imgs) ==
    [written |-> TRUE, name |-> seq, seqLength |-> seq_length(imgs),
     imWidth |-> Len(imgs[1].px), imHeight |-> 1]

(***************************************************************************)
(* The output tree of one sequence: dataset/<split>/<seq>/.                *)
(***************************************************************************)
NoOutput ==
    [gt_dir |-> FALSE, img1_dir |-> FALSE, img1 |-> <<>>, gt |-> NoTable,
     seqinfo |-> NoSeqinfo]

NoSeqmap == [written |-> FALSE, lines |-> <<>>]

\* the annotation document of every sequence during a run: index 0 with object 7,
\* index 2 with object 3
RunDocument ==
    <<[index |-> 0, figures |-> <<[objectId |-> 7, exterior |-> ExampleExterior]>>],
      [index |-> 2, figures |-> <<[objectId |-> 3, exterior |-> ExampleExterior]>>]>>

(***************************************************************************)
(* The scratch directory and the videos in it.  A file is known by its     *)
(* name in the directory.  A video is the sequence of the clips            *)
(* <<segment, name>> it was made of, and whether it is at 1 fps.           *)
(***************************************************************************)
NoScratch == [exists |-> FALSE, files |-> {}]

NoPath == <<>>

\* tmp_dir / f"{seg.name}_{ts_file.stem}.mp4"
Mp4Path(seg, stem) == seg \o <<95>> \o stem \o <<46, 109, 112, 52>>

\* tmp_dir / f"{seg.name}_cat.mp4"
CatPath(seg) == seg \o <<95, 99, 97, 116, 46, 109, 112, 52>>

\* tmp_dir / f"{seg.name}_1fps.mp4"
FpsPath(seg) == seg \o <<95, 49, 102, 112, 115, 46, 109, 112, 52>>

\* tmp_dir / "merged_1fps.mp4"
MergedPath == <<109, 101, 114, 103, 101, 100, 95, 49, 102, 112, 115, 46, 109, 112, 52>>

Put(t, path, video) ==
    [exists |-> t.exists,
     files  |-> {f \in t.files : f.path # path} \cup {[path |-> path, video |-> video]}]

Has(t, path) == t.exists /\ \E f \in t.files : f.path = path

Get(t, path) == (CHOOSE f \in t.files : f.path = path).video

\* the video ffmpeg's concat demuxer makes of the listed files
concat_video(t, paths) ==
    [clips |-> Flatten([i \in DOMAIN paths |-> Get(t, paths[i]).clips]),
     fps1  |-> paths # <<>> /\ \A i \in DOMAIN paths : Get(t, paths[i]).fps1]

Prefixes(s) == {SubSeq(s, 1, n) : n \in 0..Len(s)}

\* concat_mp4s(mp4_paths, output_path) when ffmpeg exits with 0: the scratch
\* directories it can leave.  The list file names mp4_paths and "ffmpeg -y
\* ... -c copy output_path" writes output_path.  When output_path is itself
\* one of mp4_paths, ffmpeg overwrites a file it is to read, and what it reads
\* of that file is not determined by the script: any leading part of it,
\* from nothing to all of it.
concat_mp4s(t, mp4_paths, output_path) ==
    IF output_path \notin Range(mp4_paths)
      THEN {Put(t, output_path, concat_video(t, mp4_paths))}
      ELSE {Put(t, output_path,
                concat_video(Put(t, output_path,
                                 [clips |-> c, fps1 |-> Get(t, output_path).fps1]),
                             mp4_paths))
            : c \in Prefixes(Get(t, output_path).clips)}

scratch_leak(t) == t

\* leaving "with tempfile.TemporaryDirectory() as td"
scratch_cleanup(t) == NoScratch

run_never_raises(ok) == FALSE

\* subprocess.run(cmd, check=True) raises when the command exits non-zero
run_raises(ok) == ~ok

NoVideoAbort == "crashed"

\* "if merged_video is None: ... return": back in the loop over the sequences
NoVideoReturn == "loop"

(***************************************************************************)
(* The state of the run while sup_to_mot is examined alone.                *)
(***************************************************************************)
IdleRun ==
    /\ has_ffmpeg = TRUE
    /\ has_cv2 = TRUE
    /\ fs = <<>>
    /\ masks = <<>>
    /\ pc = "idle"
    /\ k = 0
    /\ problems = <<>>
    /\ out_dir = FALSE
    /\ dst = <<>>
    /\ seqmaps = <<>>
    /\ td = NoScratch
    /\ segment_dirs = <<>>
    /\ si = 0
    /\ ts_list = <<>>
    /\ ci = 0
    /\ mp4_list = <<>>
    /\ segments_1fps = <<>>
    /\ merged_video = NoPath
    /\ raw_frames = <<>>
    /\ imwritten = <<>>
    /\ tool_failed = ""
    /\ crash = ""

(***************************************************************************)
(* Annotation documents sup_to_mot is applied to.                          *)
(***************************************************************************)
ObjIds == {3, 7, 12}

MotFigures == [objectId : ObjIds, exterior : {ExampleExterior}]

RECURSIVE Sum(_)
Sum(c) == IF c = <<>> THEN 0 ELSE Head(c) + Sum(Tail(c))

\* the document with c[i] figures in frame record i, the figures being those of
\* flat, in order, and the indices those of ix
DocOf(c, ix, flat) ==
    [i \in DOMAIN c |->
        [index   |-> ix[i],
         figures |-> SubSeq(flat, Sum(SubSeq(c, 1, i - 1)) + 1, Sum(SubSeq(c, 1, i)))]]

FigureCounts ==
    {c \in SeqsUpTo(0..MaxFigures, MaxFrameRecords) : Sum(c) <= MaxFigures}

Coords == (-2..MaxCoord) \cup {20, 40, 100, 160}

BoxDocuments ==
    {<<[index |-> 0,
        figures |-> <<[objectId |-> 7, exterior |-> <<<<x1, y1>>, <<x2, y2>>>>]>>]>>
     : x1 \in Coords, y1 \in Coords, x2 \in Coords, y2 \in Coords}

InitMot ==
    /\ \E c \in FigureCounts :
       \E ix \in [DOMAIN c -> 0..MaxIndex], flat \in [1..Sum(c) -> MotFigures] :
          data = DocOf(c, ix, flat)
    /\ txt_out = NoTable
    /\ IdleRun

InitBox ==
    /\ data \in BoxDocuments
    /\ txt_out = NoTable
    /\ IdleRun

\* sup_to_mot(json_path, txt_out) on the document of json_path
Convert ==
    /\ pc = "idle"
    /\ ~txt_out.written
    /\ txt_out' = sup_to_mot(data)
    /\ UNCHANGED <<data, has_ffmpeg, has_cv2, fs, masks, pc, k, problems, out_dir, dst,
                   seqmaps, td, segment_dirs, si, ts_list, ci, mp4_list,
                   segments_1fps, merged_video, raw_frames, imwritten, tool_failed, crash>>

NextMot == Convert

SpecMot == InitMot /\ [][NextMot]_vars

SpecBox == InitBox /\ [][NextMot]_vars

(***************************************************************************)
(* Claims about sup_to_mot.                                                *)
(***************************************************************************)
\* the figures of the document with the frame record of each, in document order
FigureRefs(d) ==
    Flatten([i \in DOMAIN d |-> [j \in DOMAIN d[i].figures |-> <<i, j>>]])

DocObjectIds(d) ==
    UNION {{d[i].figures[j].objectId : j \in DOMAIN d[i].figures} : i \in DOMAIN d}

\* C1: the identity map is a strictly increasing bijection from the distinct
\* object ids of the whole document onto 1..N, and every row carries the mapped
\* id of its figure, whichever frame the object first appears in.
C1_IdentityMap ==
    txt_out.written =>
        LET m == txt_out.id_map
            S == DocObjectIds(data)
            refs == FigureRefs(data)
        IN  /\ DOMAIN m = S
            /\ {m[o] : o \in S} = 1..Cardinality(S)
            /\ \A a, b \in S : a < b => m[a] < m[b]
            /\ Len(txt_out.rows) = Len(refs)
            /\ \A n \in DOMAIN refs :
                  LET oid == data[refs[n][1]].figures[refs[n][2]].objectId
                  IN  txt_out.rows[n][2] = Cardinality({o \in S : o <= oid})

\* an object with a larger id appears in the document before one with a smaller id
C1_Witness ==
    /\ txt_out.written
    /\ Len(txt_out.rows) >= 2
    /\ txt_out.rows[1][2] = 2
    /\ txt_out.rows[2][2] = 1
    /\ 7 \in DocObjectIds(data)
    /\ 3 \in DocObjectIds(data)
    /\ txt_out.id_map[3] = 1
    /\ txt_out.id_map[7] = 2

\* r is the integer nearest to h/2
Nearest(r, h) == abs(2 * r - h) <= 1

SwapCorners(d) ==
    [i \in DOMAIN d |->
        [index   |-> d[i].index,
         figures |-> [j \in DOMAIN d[i].figures |->
                        [objectId |-> d[i].figures[j].objectId,
                         exterior |-> <<d[i].figures[j].exterior[2],
                                        d[i].figures[j].exterior[1]>>]]]]

\* C2: for corners in either order the row has x, y the rounded smaller
\* coordinates and width, height the rounded distances, never negative, and the
\* figure with its corners swapped gives the same row.
C2_Box ==
    txt_out.written =>
        LET e  == data[1].figures[1].exterior
            r  == txt_out.rows[1]
            lx == IF e[1][1] <= e[2][1] THEN e[1][1] ELSE e[2][1]
            hx == IF e[1][1] <= e[2][1] THEN e[2][1] ELSE e[1][1]
            ly == IF e[1][2] <= e[2][2] THEN e[1][2] ELSE e[2][2]
            hy == IF e[1][2] <= e[2][2] THEN e[2][2] ELSE e[1][2]
        IN  /\ Nearest(r[3], lx)
            /\ Nearest(r[4], ly)
            /\ Nearest(r[5], hx - lx)
            /\ Nearest(r[6], hy - ly)
            /\ r[5] >= 0
            /\ r[6] >= 0
            /\ sup_to_mot(SwapCorners(data)).rows = txt_out.rows
            /\ e = ExampleExterior => <<r[3], r[4], r[5], r[6]>> = <<10, 20, 40, 60>>

\* the row of the figure with corners (50, 80), (10, 20), second corner smaller
C2_Witness ==
    /\ txt_out.written
    /\ data[1].figures[1].exterior = ExampleExterior
    /\ txt_out.rows[1] = <<1, 1, 10, 20, 40, 60, 1, 1, 1>>

OrderedByFrame(rows) ==
    \A a, b \in DOMAIN rows : a < b => rows[a][1] <= rows[b][1]

IndexOrdered(d) ==
    \A a, b \in DOMAIN d : a < b => d[a].index <= d[b].index

RowsInDocumentOrder ==
    LET refs == FigureRefs(data)
    IN  /\ Len(txt_out.rows) = Len(refs)
        /\ \A n \in DOMAIN refs :
              LET fr == data[refs[n][1]]
              IN  /\ txt_out.rows[n][1] = fr.index + 1
                  /\ txt_out.rows[n][2] =
                        txt_out.id_map[fr.figures[refs[n][2]].objectId]

\* C3 as stated: one row per figure in document order, frame = index + 1, and
\* the table is ordered by frame.
C3_AsStated ==
    txt_out.written => RowsInDocumentOrder /\ OrderedByFrame(txt_out.rows)

\* C3 as amended: one row per figure in document order, frame = index + 1; the
\* table is ordered by frame when the frame records of the document are in
\* non-decreasing order of index.
C3_DocumentOrder ==
    txt_out.written =>
        /\ RowsInDocumentOrder
        /\ IndexOrdered(data) => OrderedByFrame(txt_out.rows)

\* the document of the example: index 0 with object 7, then index 2 with object 3
C3_Witness ==
    /\ txt_out.written
    /\ Len(data) = 2
    /\ data[1].index = 0
    /\ data[2].index = 2
    /\ Len(txt_out.rows) = 2
    /\ txt_out.rows[1][1] = 1
    /\ txt_out.rows[1][2] = 2
    /\ txt_out.rows[2][1] = 3
    /\ txt_out.rows[2][2] = 1

(***************************************************************************)
(* The run of the script.                                                  *)
(***************************************************************************)
IdleBuild ==
    /\ segment_dirs = <<>>
    /\ si = 0
    /\ ts_list = <<>>
    /\ ci = 0
    /\ mp4_list = <<>>
    /\ segments_1fps = <<>>
    /\ merged_video = NoPath

NoMasks == [f \in MaskFiles |-> NoMask]

\* the mask of the frames' width for camera C1 only, the wider mask for camera
\* C2 only
MaskSettings ==
    {[NoMasks EXCEPT !["C1_mask.png"] = MaskImages[1]],
     [NoMasks EXCEPT !["C2_mask.png"] = MaskImages[2]]}

\* A run starts with a tool missing, or with up to MaxBroken sequences that
\* sanity_check objects to, or with up to MaxVaried sequences that differ from
\* the default, or with the mask of one camera and up to MaxVaried sequences
\* with a frame that cannot be read; dataset/ does not exist.
Init ==
    /\ data = <<>>
    /\ txt_out = NoTable
    /\ \/ /\ \E tools \in (BOOLEAN \X BOOLEAN) \ {<<TRUE, TRUE>>} :
                has_ffmpeg = tools[1] /\ has_cv2 = tools[2]
          /\ fs = Patch(<<>>)
          /\ masks = NoMasks
       \/ /\ has_ffmpeg = TRUE
          /\ has_cv2 = TRUE
          /\ \E S \in Few(MaxBroken) \ {{}} : \E g \in [S -> BrokenTrees] : fs = Patch(g)
          /\ masks = NoMasks
       \/ /\ has_ffmpeg = TRUE
          /\ has_cv2 = TRUE
          /\ \E S \in Few(MaxVaried) : \E g \in [S -> VariantTrees] : fs = Patch(g)
          /\ masks = NoMasks
       \/ /\ has_ffmpeg = TRUE
          /\ has_cv2 = TRUE
          /\ \E S \in Few(MaxVaried) : \E g \in [S -> FrameTrees] : fs = Patch(g)
          /\ masks \in MaskSettings
    /\ pc = "start"
    /\ k = 0
    /\ problems = <<>>
    /\ out_dir = FALSE
    /\ dst = [s \in SeqSet |-> NoOutput]
    /\ seqmaps = [sp \in Range(SplitNames) |-> NoSeqmap]
    /\ td = NoScratch
    /\ IdleBuild
    /\ raw_frames = [s \in SeqSet |-> <<>>]
    /\ imwritten = [s \in SeqSet |-> <<>>]
    /\ tool_failed = ""
    /\ crash = ""

CurSeq == Pairs[k].seq

\* if not shutil.which("ffmpeg"): sys.exit(...)
Startup ==
    /\ pc = "start"
    /\ IF has_ffmpeg
         THEN pc' = "opencv" /\ crash' = crash
         ELSE pc' = "exit" /\ crash' = "no_ffmpeg"
    /\ UNCHANGED <<data, txt_out, has_ffmpeg, has_cv2, fs, masks, k, problems, out_dir, dst,
                   seqmaps, td, buildVars, raw_frames, imwritten, tool_failed>>

\* try: _ = cv2.__version__ / except AttributeError: sys.exit(...)
CheckOpenCV ==
    /\ pc = "opencv"
    /\ IF has_cv2
         THEN pc' = "preflight" /\ crash' = crash
         ELSE pc' = "exit" /\ crash' = "no_opencv"
    /\ UNCHANGED <<data, txt_out, has_ffmpeg, has_cv2, fs, masks, k, problems, out_dir, dst,
                   seqmaps, td, buildVars, raw_frames, imwritten, tool_failed>>

\* problems = sanity_check(); exit if any; OUT_DIR.mkdir(exist_ok=True)
Preflight ==
    /\ pc = "preflight"
    /\ problems' = sanity_check(fs)
    /\ IF problems' # <<>>
         THEN /\ pc' = "exit"
              /\ crash' = "problems"
              /\ UNCHANGED <<out_dir, k>>
         ELSE /\ pc' = "loop"
              /\ out_dir' = TRUE
              /\ k' = 1
              /\ crash' = crash
    /\ UNCHANGED <<data, txt_out, has_ffmpeg, has_cv2, fs, masks, dst, seqmaps, td, buildVars,
                   raw_frames, imwritten, tool_failed>>

\* process_sequence up to the entry of the with block:
\* gt_dir.mkdir(parents=True, exist_ok=True); tempfile.TemporaryDirectory()
ProcessSequence ==
    /\ pc = "loop"
    /\ k <= Len(Pairs)
    /\ dst' = [dst EXCEPT ![CurSeq].gt_dir = TRUE]
    /\ td' = [exists |-> TRUE, files |-> {}]
    /\ pc' = "iterdir"
    /\ UNCHANGED <<data, txt_out, has_ffmpeg, has_cv2, fs, masks, k, problems, out_dir, seqmaps,
                   buildVars, raw_frames, imwritten, tool_failed, crash>>

\* segment_dirs = [d for d in raw_dir.iterdir() if d.is_dir()] or [raw_dir];
\* the loop is over sorted(segment_dirs)
Iterdir ==
    /\ pc = "iterdir"
    /\ \E listing \in Listings({d.name : d \in fs[CurSeq].subdirs}) :
          segment_dirs' = sorted_paths(IF listing = <<>> THEN <<RawVideos>> ELSE listing)
    /\ si' = 1
    /\ segments_1fps' = <<>>
    /\ pc' = "glob"
    /\ UNCHANGED <<data, txt_out, has_ffmpeg, has_cv2, fs, masks, k, problems, out_dir, dst,
                   seqmaps, td, ts_list, ci, mp4_list, merged_video, raw_frames, imwritten,
                   tool_failed, crash>>

\* the file names seg.glob("*.ts") yields
ts_of(t, seg) ==
    IF t.subdirs = {} THEN t.root_ts
    ELSE (CHOOSE d \in t.subdirs : d.name = seg).ts

\* for seg in sorted(segment_dirs): mp4_list = []; sorted(seg.glob("*.ts"));
\* "if not mp4_list: continue" when the segment holds no clip
Glob ==
    /\ pc = "glob"
    /\ si <= Len(segment_dirs)
    /\ \E listing \in Listings(ts_of(fs[CurSeq], segment_dirs[si])) :
          ts_list' = sorted_paths(listing)
    /\ mp4_list' = <<>>
    /\ ci' = 1
    /\ IF ts_list' = <<>>
         THEN si' = si + 1 /\ pc' = "glob"
         ELSE si' = si /\ pc' = "ts"
    /\ UNCHANGED <<data, txt_out, has_ffmpeg, has_cv2, fs, masks, k, problems, out_dir, dst,
                   seqmaps, td, segment_dirs, segments_1fps, merged_video, raw_frames, imwritten,
                   tool_failed, crash>>

\* an exception leaves the with block (the scratch directory goes) and ends the run
Raise(tool) ==
    /\ pc' = "crashed"
    /\ crash' = "tool"
    /\ tool_failed' = tool
    /\ td' = scratch_cleanup(td)

\* mp4_path = tmp_dir / f"{seg.name}_{ts_file.stem}.mp4";
\* ts_to_mp4(ts_file, mp4_path); mp4_list.append(mp4_path)
TsToMp4 ==
    /\ pc = "ts"
    /\ \E ok \in BOOLEAN :
         LET seg      == segment_dirs[si]
             mp4_path == Mp4Path(seg, stem_of(ts_list[ci]))
         IN  IF run_raises(ok)
               THEN /\ Raise("ts_to_mp4")
                    /\ UNCHANGED <<mp4_list, ci>>
               ELSE /\ td' = Put(td, mp4_path, [clips |-> <<<<seg, ts_list[ci]>>>>,
                                               fps1 |-> FALSE])
                    /\ mp4_list' = Append(mp4_list, mp4_path)
                    /\ ci' = ci + 1
                    /\ pc' = IF ci = Len(ts_list) THEN "cat" ELSE "ts"
                    /\ tool_failed' = IF ok THEN tool_failed ELSE "ts_to_mp4"
                    /\ crash' = crash
    /\ UNCHANGED <<data, txt_out, has_ffmpeg, has_cv2, fs, masks, k, problems, out_dir, dst,
                   seqmaps, segment_dirs, si, ts_list, segments_1fps, merged_video,
                   raw_frames, imwritten>>

\* seg_cat = tmp_dir / f"{seg.name}_cat.mp4"; concat_mp4s(mp4_list, seg_cat)
ConcatSegment ==
    /\ pc = "cat"
    /\ \E ok \in BOOLEAN :
         IF run_raises(ok)
           THEN Raise("concat_mp4s")
           ELSE /\ td' \in concat_mp4s(td, mp4_list, CatPath(segment_dirs[si]))
                /\ pc' = "down"
                /\ tool_failed' = IF ok THEN tool_failed ELSE "concat_mp4s"
                /\ crash' = crash
    /\ UNCHANGED <<data, txt_out, has_ffmpeg, has_cv2, fs, masks, k, problems, out_dir, dst,
                   seqmaps, buildVars, raw_frames, imwritten>>

\* seg_1fps = tmp_dir / f"{seg.name}_1fps.mp4";
\* downsample_to_1fps(seg_cat, seg_1fps); segments_1fps.append(seg_1fps)
Downsample ==
    /\ pc = "down"
    /\ \E ok \in BOOLEAN :
         LET seg == segment_dirs[si]
         IN  IF run_raises(ok)
               THEN /\ Raise("downsample_to_1fps")
                    /\ UNCHANGED <<segments_1fps, si>>
               ELSE /\ td' = Put(td, FpsPath(seg),
                                 [clips |-> Get(td, CatPath(seg)).clips, fps1 |-> TRUE])
                    /\ segments_1fps' = Append(segments_1fps, FpsPath(seg))
                    /\ si' = si + 1
                    /\ pc' = "glob"
                    /\ tool_failed' = IF ok THEN tool_failed ELSE "downsample_to_1fps"
                    /\ crash' = crash
    /\ UNCHANGED <<data, txt_out, has_ffmpeg, has_cv2, fs, masks, k, problems, out_dir, dst,
                   seqmaps, segment_dirs, ts_list, ci, mp4_list, merged_video, raw_frames, imwritten>>

\* after the loop: "return None" (process_sequence prints and returns, the with
\* block is left), "return segments_1fps[0]", or on to the final concat
BuildReturn ==
    /\ pc = "glob"
    /\ si > Len(segment_dirs)
    /\ IF segments_1fps = <<>>
         THEN /\ pc' = NoVideoReturn
              /\ k' = k + 1
              /\ td' = scratch_cleanup(td)
              /\ merged_video' = NoPath
         ELSE IF Len(segments_1fps) = 1
         THEN /\ pc' = "extract"
              /\ merged_video' = segments_1fps[1]
              /\ UNCHANGED <<k, td>>
         ELSE /\ pc' = "merge"
              /\ UNCHANGED <<k, td, merged_video>>
    /\ crash' = IF pc' = "crashed" THEN "no_video" ELSE crash
    /\ UNCHANGED <<data, txt_out, has_ffmpeg, has_cv2, fs, masks, problems, out_dir, dst, seqmaps,
                   segment_dirs, si, ts_list, ci, mp4_list, segments_1fps, raw_frames, imwritten,
                   tool_failed>>

\* merged = tmp_dir / "merged_1fps.mp4"; concat_mp4s(segments_1fps, merged);
\* return merged
MergeSegments ==
    /\ pc = "merge"
    /\ \E ok \in BOOLEAN :
         IF run_raises(ok)
           THEN /\ Raise("concat_mp4s")
                /\ UNCHANGED merged_video
           ELSE /\ td' \in concat_mp4s(td, segments_1fps, MergedPath)
                /\ merged_video' = MergedPath
                /\ pc' = "extract"
                /\ tool_failed' = IF ok THEN tool_failed ELSE "concat_mp4s"
                /\ crash' = crash
    /\ UNCHANGED <<data, txt_out, has_ffmpeg, has_cv2, fs, masks, k, problems, out_dir, dst,
                   seqmaps, segment_dirs, si, ts_list, ci, mp4_list, segments_1fps,
                   raw_frames, imwritten>>

\* extract_frames(merged_video, img1), then the with block is left.  ffmpeg
\* writes the frames of the recording as 1..n over what img1/ holds; it exits
\* non-zero when its input is not there, and has written the first frames,
\* none or all, when it fails.
ExtractFrames ==
    /\ pc = "extract"
    /\ \E ok \in (IF Has(td, merged_video) THEN BOOLEAN ELSE {FALSE}) :
       \E n \in (IF ok THEN {Len(fs[CurSeq].frames)} ELSE 0..Len(fs[CurSeq].frames)) :
         LET old    == dst[CurSeq].img1
             frames == SubSeq(fs[CurSeq].frames, 1, n)
             imgs   == frames \o SubSeq(old, Len(frames) + 1, Len(old))
         IN  /\ dst' = [dst EXCEPT ![CurSeq].img1_dir = TRUE, ![CurSeq].img1 = imgs]
             /\ raw_frames' = [raw_frames EXCEPT ![CurSeq] = imgs]
             /\ IF run_raises(ok)
                  THEN Raise("extract_frames")
                  ELSE /\ td' = scratch_cleanup(td)
                       /\ pc' = "mask"
                       /\ tool_failed' = IF ok THEN tool_failed ELSE "extract_frames"
                       /\ crash' = crash
    /\ UNCHANGED <<data, txt_out, has_ffmpeg, has_cv2, fs, masks, k, problems, out_dir,
                   seqmaps, buildVars, imwritten>>

\* apply_mask(img1, mask_file)
ApplyMask ==
    /\ pc = "mask"
    /\ LET mask_img == masks[mask_file(CurSeq)]
       IN  /\ dst' = [dst EXCEPT ![CurSeq].img1 = apply_mask(@, mask_img)]
           /\ imwritten' = [imwritten EXCEPT
                               ![CurSeq] = imwrite_args(dst[CurSeq].img1, mask_img)]
    /\ pc' = "mot"
    /\ UNCHANGED <<data, txt_out, has_ffmpeg, has_cv2, fs, masks, k, problems, out_dir,
                   seqmaps, td, buildVars, raw_frames, tool_failed, crash>>

\* sup_to_mot(anno, gt_dir / "gt.txt")
SupToMot ==
    /\ pc = "mot"
    /\ dst' = [dst EXCEPT ![CurSeq].gt = sup_to_mot(RunDocument)]
    /\ pc' = "seqinfo"
    /\ UNCHANGED <<data, txt_out, has_ffmpeg, has_cv2, fs, masks, k, problems, out_dir, seqmaps,
                   td, buildVars, raw_frames, imwritten, tool_failed, crash>>

\* write_seqinfo(dst_seq): RuntimeError when img1/ holds no frame;
\* cv2.imread(str(imgs[0])).shape is an AttributeError when the first frame
\* cannot be read
WriteSeqinfo ==
    /\ pc = "seqinfo"
    /\ LET imgs == dst[CurSeq].img1
       IN  IF imgs = <<>>
             THEN /\ pc' = "crashed"
                  /\ crash' = "no_frames"
                  /\ UNCHANGED <<dst, k>>
             ELSE IF ~imgs[1].readable
             THEN /\ pc' = "crashed"
                  /\ crash' = "unreadable_frame"
                  /\ UNCHANGED <<dst, k>>
             ELSE /\ dst' = [dst EXCEPT ![CurSeq].seqinfo = seqinfo_of(CurSeq, imgs)]
                  /\ pc' = "loop"
                  /\ k' = k + 1
                  /\ crash' = crash
    /\ UNCHANGED <<data, txt_out, has_ffmpeg, has_cv2, fs, masks, problems, out_dir, seqmaps, td,
                   buildVars, raw_frames, imwritten, tool_failed>>

\* the seqmap files, one per split with sequences
WriteSeqmaps ==
    /\ pc = "loop"
    /\ k > Len(Pairs)
    /\ seqmaps' = [sp \in Range(SplitNames) |->
                     IF SPLIT[sp] # <<>> THEN [written |-> TRUE, lines |-> SPLIT[sp]]
                     ELSE seqmaps[sp]]
    /\ pc' = "done"
    /\ UNCHANGED <<data, txt_out, has_ffmpeg, has_cv2, fs, masks, k, problems, out_dir, dst, td,
                   buildVars, raw_frames, imwritten, tool_failed, crash>>

Next ==
    \/ Startup
    \/ CheckOpenCV
    \/ Preflight
    \/ ProcessSequence
    \/ Iterdir
    \/ Glob
    \/ TsToMp4
    \/ ConcatSegment
    \/ Downsample
    \/ BuildReturn
    \/ MergeSegments
    \/ ExtractFrames
    \/ ApplyMask
    \/ SupToMot
    \/ WriteSeqinfo
    \/ WriteSeqmaps

Spec == Init /\ [][Next]_vars

(***************************************************************************)
(* build_1fps_video taken alone: process_sequence has entered the with     *)
(* block for the first sequence, whose raw_videos/ passed sanity_check.    *)
(***************************************************************************)
\* Clip1 is also the name of a directory here
SegNames == {N1, Merged, Clip1}

ClipNames == {Clip1, Clip1Dash, ClipCat, ClipDot}

ClipSets == {c \in SUBSET ClipNames : Cardinality(c) <= MaxClips}

SubdirSets ==
    UNION {{{Sub(n, f[n]) : n \in NS} : f \in [NS -> ClipSets]}
           : NS \in {x \in SUBSET SegNames : Cardinality(x) <= MaxSegments}}

\* the trees build_1fps_video is given: they passed sanity_check, a clip
\* deeper than the segments lies under a sub-directory of raw_videos/, and no
\* name in raw_videos/ is both a file and a directory
BuildTrees ==
    {t \in {Tree(TRUE, TRUE, root, subs, deep, TRUE, FramesOf(1)) :
              root \in {{}, {Clip1}}, subs \in SubdirSets, deep \in BOOLEAN} :
       /\ any_ts(t)
       /\ t.deep_ts => t.subdirs # {}
       /\ t.root_ts \cap {d.name : d \in t.subdirs} = {}}

InitBuild ==
    /\ data = <<>>
    /\ txt_out = NoTable
    /\ has_ffmpeg = TRUE
    /\ has_cv2 = TRUE
    /\ \E t \in BuildTrees : fs = [Patch(<<>>) EXCEPT ![Pairs[1].seq] = t]
    /\ masks = NoMasks
    /\ pc = "iterdir"
    /\ k = 1
    /\ problems = <<>>
    /\ out_dir = TRUE
    /\ dst = [s \in SeqSet |->
                IF s = Pairs[1].seq THEN [NoOutput EXCEPT !.gt_dir = TRUE] ELSE NoOutput]
    /\ seqmaps = [sp \in Range(SplitNames) |-> NoSeqmap]
    /\ td = [exists |-> TRUE, files |-> {}]
    /\ IdleBuild
    /\ raw_frames = [s \in SeqSet |-> <<>>]
    /\ imwritten = [s \in SeqSet |-> <<>>]
    /\ tool_failed = ""
    /\ crash = ""

NextBuild ==
    \/ Iterdir
    \/ Glob
    \/ TsToMp4
    \/ ConcatSegment
    \/ Downsample
    \/ BuildReturn
    \/ MergeSegments

SpecBuild == InitBuild /\ [][NextBuild]_vars

(***************************************************************************)
(* Claims about the run.                                                   *)
(***************************************************************************)
InRun == pc # "idle"

Untouched(s) == dst[s] = NoOutput /\ raw_frames[s] = <<>>

\* only the gt/ directory made on entry of process_sequence
Skipped(s) == dst[s] = [NoOutput EXCEPT !.gt_dir = TRUE] /\ raw_frames[s] = <<>>

Complete(s) ==
    /\ dst[s].img1 # <<>>
    /\ dst[s].gt.written
    /\ dst[s].seqinfo.written

NoSeqmaps == \A sp \in Range(SplitNames) : ~seqmaps[sp].written

\* the segments of a raw_videos/ tree, and those with a clip
SegmentsOf(t) == IF t.subdirs = {} THEN {Sub(RawVideos, t.root_ts)} ELSE t.subdirs

Productive(t) == {d \in SegmentsOf(t) : d.ts # {}}

\* what sanity_check is to report about a tree; a clip is a .ts file under
\* raw_videos/
Defects(t) ==
    IF ~t.seq_dir THEN {"directory not found"}
    ELSE (IF ~t.raw_dir THEN {"missing raw_videos/"} ELSE {})
         \cup (IF t.raw_dir /\ t.root_ts = {} /\ ~t.deep_ts /\ (\A d \in t.subdirs : d.ts = {})
               THEN {"no .ts clips found in raw_videos/"} ELSE {})
         \cup (IF ~t.annotation THEN {"missing annotation.json"} ELSE {})

\* C4: the pre-flight pass reports every defect of every sequence (no
\* directory, no raw_videos/, a raw_videos/ without any clip, no annotation),
\* and a non-empty report ends the run before any sequence is processed and
\* before anything is written.
C4_Preflight ==
    (pc \notin {"idle", "start", "opencv", "preflight"}
       /\ crash \notin {"no_ffmpeg", "no_opencv"}) =>
        /\ \A s \in SeqSet :
             {problems[i].what : i \in {j \in DOMAIN problems : problems[j].seq = s}}
               = Defects(fs[s])
        /\ problems # <<>> =>
             /\ pc = "exit"
             /\ k = 0
             /\ ~out_dir
             /\ ~td.exists
             /\ NoSeqmaps
             /\ \A s \in SeqSet : Untouched(s)

\* C5: a sequence for which build_1fps_video yields no video is skipped: nothing
\* but its gt/ directory exists, the run goes on with the next (split, sequence)
\* pair, the pairs are handled in order, and a run that reaches its end has
\* written the manifests.
C5_Skip ==
    /\ [][(pc = "glob" /\ si > Len(segment_dirs) /\ segments_1fps = <<>>) =>
            /\ pc' = "loop"
            /\ k' = k + 1
            /\ crash' = ""
            /\ ~td'.exists
            /\ Skipped(Pairs[k].seq)
            /\ UNCHANGED <<dst, raw_frames, seqmaps>>]_vars
    /\ [](InRun =>
            \A i \in DOMAIN Pairs :
               /\ i < k => IF Productive(fs[Pairs[i].seq]) = {}
                             THEN Skipped(Pairs[i].seq)
                             ELSE Complete(Pairs[i].seq)
               /\ i > k /\ k > 0 => Untouched(Pairs[i].seq))
    /\ [](pc = "done" =>
            /\ k = Len(Pairs) + 1
            /\ crash = ""
            /\ \A sp \in Range(SplitNames) :
                  IF SPLIT[sp] = <<>> THEN ~seqmaps[sp].written
                  ELSE seqmaps[sp] = [written |-> TRUE, lines |-> SPLIT[sp]])

\* the first sequence was skipped, the others were converted, the run is over
\* and the three manifests are there
C5_Witness ==
    /\ pc = "done"
    /\ Skipped(Pairs[1].seq)
    /\ \A i \in DOMAIN Pairs : i > 1 => Complete(Pairs[i].seq)
    /\ \A sp \in Range(SplitNames) : seqmaps[sp].written

\* C6: once an external tool invocation has exited non-zero the run is over:
\* the sequence gets no ground-truth table and no descriptor (and no frames
\* unless the failing call is the frame extraction), no later sequence is
\* touched, no manifest is written, and no step follows.
C6_ToolFailure ==
    /\ [](tool_failed # "" =>
            /\ pc = "crashed"
            /\ crash = "tool"
            /\ ~td.exists
            /\ NoSeqmaps
            /\ ~dst[Pairs[k].seq].gt.written
            /\ ~dst[Pairs[k].seq].seqinfo.written
            /\ tool_failed # "extract_frames" => ~dst[Pairs[k].seq].img1_dir
            /\ \A i \in DOMAIN Pairs : i > k => Untouched(Pairs[i].seq))
    /\ [][pc # "crashed"]_vars

\* the resample of the second sequence fails after the first was converted
C6_Witness ==
    /\ pc = "crashed"
    /\ tool_failed = "downsample_to_1fps"
    /\ k = 2
    /\ Complete(Pairs[1].seq)
    /\ Untouched(Pairs[3].seq)

\* C7: the scratch directory exists during assembly and frame extraction, the
\* extraction finds the assembled video in it, and it is gone on every way out
\* of the step: extraction done, no video, a failed tool call.
C7_Scratch ==
    /\ pc \in {"iterdir", "glob", "ts", "cat", "down", "merge", "extract"} => td.exists
    /\ pc = "extract" => Has(td, merged_video)
    /\ pc \in {"start", "opencv", "preflight", "exit", "loop", "mask", "mot", "seqinfo",
               "done", "crashed"} => td = NoScratch

\* after a skip (sequence 1) and a conversion (sequence 2), a tool fails in the
\* third sequence: the three ways out have been taken and the directory is gone
C7_Witness ==
    /\ pc = "crashed"
    /\ tool_failed # ""
    /\ k = 3
    /\ Skipped(Pairs[1].seq)
    /\ Complete(Pairs[2].seq)
    /\ td = NoScratch

\* a < b for two clips <<segment, file name>>
PairLess(a, b) ==
    LexLess(a[1], b[1]) \/ (a[1] = b[1] /\ LexLess(a[2], b[2]))

Increasing(s) == \A a, b \in DOMAIN s : a < b => LexLess(s[a], s[b])

\* C8: the segments are the sub-directories of raw_videos/, or raw_videos/
\* itself; segments and clips are taken in sorted name order whatever the order
\* of the listings; no video when no segment has a clip, the 1-fps video of the
\* segment when one has, the concatenation in segment order otherwise: the
\* video returned is made of every clip of every segment, in that order.
\*
\* Not an invariant of SpecBuild.  raw_videos/1/cat.ts alone: Iterdir gives
\* segment_dirs = <<"1">>, Glob ts_list = <<"cat.ts">>, TsToMp4 writes
\* 1_cat.mp4 (line 210) and mp4_list = <<"1_cat.mp4">>; at pc = "cat" seg_cat is
\* 1_cat.mp4 as well (line 216), so ConcatSegment has ffmpeg overwrite the one
\* file it lists; Downsample makes 1_1fps.mp4 of it and BuildReturn returns
\* that: pc = "extract" with a video that need not hold the clip.
\* raw_videos/1/1.ts with raw_videos/merged/1.ts: after both segments
\* segments_1fps = <<"1_1fps.mp4", "merged_1fps.mp4">> (line 219) and
\* BuildReturn goes to pc = "merge", where merged is merged_1fps.mp4 as well
\* (line 228): MergeSegments has ffmpeg overwrite the second file it lists, and
\* pc = "extract" with a video that need not hold the clip of segment merged.
C8_Build ==
    LET t == fs[Pairs[1].seq]
        expected == UNION {{<<d.name, c>> : c \in d.ts} : d \in Productive(t)}
    IN  /\ pc \in {"glob", "ts", "cat", "down", "merge", "extract"} =>
              /\ Range(segment_dirs) = {d.name : d \in SegmentsOf(t)}
              /\ Increasing(segment_dirs)
        /\ pc \in {"ts", "cat", "down"} =>
              /\ Range(ts_list) = ts_of(t, segment_dirs[si])
              /\ Increasing(ts_list)
        /\ pc = "loop" => Productive(t) = {}
        /\ pc = "extract" =>
              LET v == Get(td, merged_video)
              IN  /\ Has(td, merged_video)
                  /\ v.fps1
                  /\ Range(v.clips) = expected
                  /\ \A a, b \in DOMAIN v.clips : a < b => PairLess(v.clips[a], v.clips[b])
                  /\ Cardinality(Productive(t)) = 1 =>
                        \E d \in Productive(t) : merged_video = FpsPath(d.name)
                  /\ Cardinality(Productive(t)) >= 2 => merged_video = MergedPath
                  /\ Productive(t) # {}

\* C9: write_seqinfo on an empty img1/ ends the run with no descriptor for the
\* sequence, no later sequence touched and no manifest; a descriptor that is
\* written has seqLength equal to the number of frames in img1/.
C9_Seqinfo ==
    InRun =>
        /\ \A s \in SeqSet :
             dst[s].seqinfo.written =>
                /\ dst[s].seqinfo.seqLength = Len(dst[s].img1)
                /\ Len(dst[s].img1) >= 1
        /\ crash = "no_frames" =>
             /\ pc = "crashed"
             /\ dst[Pairs[k].seq].img1 = <<>>
             /\ dst[Pairs[k].seq].seqinfo = NoSeqinfo
             /\ NoSeqmaps
             /\ \A i \in DOMAIN Pairs : i > k => Untouched(Pairs[i].seq)
        /\ \A i \in DOMAIN Pairs :
             (i < k /\ dst[Pairs[i].seq].img1_dir) => dst[Pairs[i].seq].img1 # <<>>
        /\ \A i \in DOMAIN Pairs :
             (i = k /\ pc = "seqinfo" /\ dst[Pairs[i].seq].img1 = <<>>) =>
                 ~ENABLED (WriteSeqinfo /\ pc' # "crashed")

\* the second sequence has no frame after the first got the descriptor of its
\* MaxFrames frames
C9_Witness ==
    /\ crash = "no_frames"
    /\ k = 2
    /\ dst[Pairs[1].seq].seqinfo.seqLength = MaxFrames
    /\ Len(dst[Pairs[1].seq].img1) = MaxFrames
    /\ dst[Pairs[2].seq].img1_dir

\* the sequences whose frames apply_mask has gone over
Masked(i) ==
    /\ dst[Pairs[i].seq].img1_dir
    /\ \/ i < k
       \/ i = k /\ pc \in {"mot", "seqinfo"}
       \/ i = k /\ crash \in {"no_frames", "unreadable_frame"}

\* the value a binarized mask of the frames' width, an all-positive mask and an
\* all-zero mask give pixel p
MaskValue(m, width, p, v) ==
    /\ Len(m.px) = width => v = IF m.px[p] > 0 THEN 1 ELSE 0
    /\ (\A q \in DOMAIN m.px : m.px[q] > 0) => v = 1
    /\ (\A q \in DOMAIN m.px : m.px[q] = 0) => v = 0

\* the frames are not touched after apply_mask, earlier masked sequences have
\* their ground-truth table and descriptor, and masking ends no run
MaskStepContinues ==
    /\ [][pc \notin {"extract", "mask"} =>
            \A s \in SeqSet : dst'[s].img1 = dst[s].img1 /\ raw_frames'[s] = raw_frames[s]]_vars
    /\ [](InRun =>
            \A i \in DOMAIN Pairs :
               (Masked(i) /\ i < k) => dst[Pairs[i].seq].gt.written
                                       /\ dst[Pairs[i].seq].seqinfo.written)
    /\ [][pc = "mask" => pc' = "mot" /\ crash' = "" /\ tool_failed' = ""]_vars

\* the pixels cv2.imread decodes from the frames of img1/
Pixels(imgs) ==
    [n \in DOMAIN imgs |-> IF imgs[n].readable THEN imread(imgs[n]) ELSE <<>>]

\* C10 as stated: with the mask file missing the frames stay as extracted and
\* the sequence goes on to its ground-truth table and descriptor; with the
\* mask present every pixel of every frame in img1/ is its extracted value
\* multiplied by a mask value in {0,1}, and applying the mask to img1/ a second
\* time changes no pixel.
C10_AsStated ==
    /\ [](pc = "mot" =>
            LET s == Pairs[k].seq
                m == masks[mask_file(s)]
            IN  /\ ~m.found => dst[s].img1 = raw_frames[s]
                /\ m.found =>
                      /\ Len(dst[s].img1) = Len(raw_frames[s])
                      /\ \A n \in DOMAIN dst[s].img1 :
                           LET stored == Pixels(dst[s].img1)[n]
                               img    == Pixels(raw_frames[s])[n]
                           IN  \A p \in DOMAIN stored : \E v \in {0, 1} :
                                  /\ \A c \in DOMAIN stored[p] :
                                        stored[p][c] = img[p][c] * v
                                  /\ MaskValue(m, Len(stored), p, v)
                      /\ Pixels(apply_mask(dst[s].img1, m)) = Pixels(dst[s].img1))
    /\ MaskStepContinues

\* C10: with the mask file missing apply_mask writes nothing, the frames stay
\* as extracted and the sequence goes on to its ground-truth table and
\* descriptor.  With the mask present a frame that cannot be read is left as
\* it is, and for every other frame the array handed to cv2.imwrite is the
\* frame with every pixel multiplied by a value in {0,1} (the same for its
\* three channels; 1 where a mask of the frames' width is positive, 0
\* elsewhere; all 1 under an all-positive mask, all 0 under an all-zero one);
\* multiplying that array by the mask again changes nothing
\* (pixel * m * m = pixel * m).  The frame in img1/ is the JPEG file
\* cv2.imwrite made of that array, of the array's shape.  The frames are not
\* touched after apply_mask, and masking ends no run.
C10_Mask ==
    /\ [](pc = "mot" =>
            LET s == Pairs[k].seq
                m == masks[mask_file(s)]
            IN  /\ ~m.found => dst[s].img1 = raw_frames[s] /\ imwritten[s] = <<>>
                /\ m.found =>
                      /\ Len(dst[s].img1) = Len(raw_frames[s])
                      /\ Len(imwritten[s]) = Len(raw_frames[s])
                      /\ \A n \in DOMAIN raw_frames[s] :
                           LET img    == raw_frames[s][n].px
                               arr    == imwritten[s][n]
                               stored == dst[s].img1[n]
                           IN  IF ~raw_frames[s][n].readable
                                 THEN arr = <<>> /\ stored = raw_frames[s][n]
                                 ELSE /\ Len(arr) = Len(img)
                                      /\ \A p \in DOMAIN img : \E v \in {0, 1} :
                                            /\ \A c \in DOMAIN img[p] :
                                                  arr[p][c] = img[p][c] * v
                                            /\ MaskValue(m, Len(img), p, v)
                                      /\ mask_frame(arr, binarize(m.px)) = arr
                                      /\ stored = Encoded(arr))
    /\ MaskStepContinues

\* camera C1 has a mask, camera C2 has none: the run ends with the readable
\* frame of the first sequence (camera C1) masked and stored with a loss (the
\* pixels read back are not those written, and the masked-out pixel is not
\* black), its unreadable frame left alone, and the frames of the fifth
\* sequence (camera C2) as extracted
C10_Witness ==
    /\ pc = "done"
    /\ masks["C1_mask.png"] = MaskImages[1]
    /\ ~masks["C2_mask.png"].found
    /\ \A i \in DOMAIN Pairs : Complete(Pairs[i].seq)
    /\ mask_file(Pairs[1].seq) = "C1_mask.png"
    /\ raw_frames[Pairs[1].seq][1].readable
    /\ imwritten[Pairs[1].seq][1] # raw_frames[Pairs[1].seq][1].px
    /\ imwritten[Pairs[1].seq][1][1] = <<0, 0, 0>>
    /\ dst[Pairs[1].seq].img1[1] = Encoded(imwritten[Pairs[1].seq][1])
    /\ imread(dst[Pairs[1].seq].img1[1]) # imwritten[Pairs[1].seq][1]
    /\ imread(dst[Pairs[1].seq].img1[1])[1] # <<0, 0, 0>>
    /\ raw_frames[Pairs[1].seq][MaxFrames] = Unreadable
    /\ dst[Pairs[1].seq].img1[MaxFrames] = Unreadable
    /\ mask_file(Pairs[5].seq) = "C2_mask.png"
    /\ dst[Pairs[5].seq].img1 = raw_frames[Pairs[5].seq]
    /\ dst[Pairs[5].seq].img1 # <<>>
    /\ imwritten[Pairs[5].seq] = <<>>

====
